---- MODULE Spec2Model ----
(***************************************************************************)
(* Live message distribution of the chat backend: the websocket handler    *)
(* (HandleWebSocket, readPump, writePump, broadcastToRoom, publishToRedis, *)
(* listenRedisMessages), the hub loop (Hub.Run), the bus client            *)
(* (RedisClient.Publish / Subscribe), and the two non-socket origins       *)
(* (Handler.SendMessage, ChatServer.SendMessage / StreamMessages).         *)
(*                                                                         *)
(* Every goroutine is a thread of the model.  broadcastToRoom runs on the  *)
(* goroutine that calls it (a read pump or the bus listener) and holds     *)
(* only h.mu.RLock, which Hub.Run never takes, so its loop interleaves     *)
(* with the hub loop and with other broadcasts; it is modelled one loop    *)
(* iteration at a time.                                                    *)
(***************************************************************************)
EXTENDS Naturals, Sequences, FiniteSets, TLC

\* ---------------------------------------------------------------- bounds
QueueCap  == 1      \* slots of a connection's Send channel (256 in NewConnection)
MaxMsgs   == 2      \* messages that enter, one process (frames handled)
MaxBusMsgs == 1     \* messages that enter, two processes (frames, SendMessage calls)
MaxWsMsgs == 2      \* messages that enter while a handshake is followed
MaxReplays == 1     \* bus messages delivered again by a replaying publisher
TickStep  == 30     \* time-units the clock advances in one step
MaxTime   == 90     \* the clock stops here

\* conn.wsConn.SetReadDeadline(time.Now().Add(60 * time.Second))
ReadWait == 60

\* ------------------------------------------------------------- universes
Procs   == {"A", "B"}                 \* server processes sharing one bus
ConnIds == {"c1", "c2", "c3"}         \* Connection.ID values
Rooms   == {"R1", "*"}                \* room_id values a client may name
Streams == {"s1"}                     \* StreamMessages calls
Contents == {"hi"}
ClientMsgIds == {"m1"}                \* message_id values a client may put in a frame
FrameTypes == {"message", "join", "leave", "typing", "other", "malformed"}
\* uuid.New() returns a value it has not returned before: the n-th message that
\* enters takes the n-th value of UuidPool, the n-th message of a stream the
\* n-th value of StreamUuidPool.
UuidPool == <<"u1", "u2", "u3", "u4", "u5", "u6">>
StreamUuidPool == <<"v1", "v2", "v3", "v4", "v5", "v6", "v7", "v8">>

\* The process whose HandleWebSocket accepted the connection.
ProcOf(c) == IF c = "c3" THEN "B" ELSE "A"

VARIABLES
    Connections,   \* Hub.Connections of each process (the ids in the map)
    RoomID,        \* Connection.RoomID; "" before the connection is created
    Send,          \* Connection.Send: the buffered messages not yet consumed
    closed,        \* Connection.Send has been closed
    hubReq,        \* what Hub.Run has received and not yet applied
    rpPc,          \* readPump position
    wpPc,          \* writePump position
    wsClosed,      \* wsConn.Close() has been called
    bc,            \* broadcastToRoom position of each calling goroutine
    crashed,       \* the process died of a panic or a fatal runtime error
    inbox,         \* bus messages delivered to a subscription, not yet received
    streamPc,      \* StreamMessages: "new", "run" (in its receive loop), "retry"
                   \* (a receive failed and was logged), "done"
    streamRoom,    \* StreamMessages: req.RoomId of the call
    streamOut,     \* StreamMessages: the messages sent on the stream
    stored,        \* rows of the messages table: id and user_id
    nmsgs,         \* messages that have entered so far
    nreplays,      \* replays so far
    enqueued,      \* history: the message_id of every message enqueued on Send
    unregSent,     \* history: sends on Hub.Unregister for the connection
    arrived,       \* history: the payloads the bus listener has received
    published,     \* history: the messages Publish accepted
    written,       \* history: the frames writePump wrote to the socket
    shutdown,      \* main has received SIGINT or SIGTERM
    frameLog,      \* history: the frames the read pumps have taken, in order
    dbCalls,       \* history: the number of storage calls made so far
    lsPc,          \* listenRedisMessages: "recv" (at ReceiveMessage), "logged"
                   \* (a receive error was logged), "stopped" (it has returned)
    now,           \* the clock, in units of half the read deadline's span
    readDeadline,  \* the read deadline set on the connection's socket
    lastFrame,     \* history: when the read pump last took a frame
    registered,    \* history: the connections Hub.Run has put in its map
    users,         \* rows of the users table
    regs,          \* Register requests in flight: position, payload, status
    welcome,       \* history: the welcome frame's write, the number of frames
                   \* writePump had written before it and the length of the
                   \* queue at that moment
    resp           \* the HTTP request handled last and its response

vars == <<Connections, RoomID, Send, closed, hubReq, rpPc, wpPc, wsClosed, bc,
          crashed, inbox, streamPc, streamRoom, streamOut, stored, nmsgs,
          nreplays, enqueued, unregSent, arrived, published, written,
          shutdown, frameLog, dbCalls, lsPc, now, readDeadline, lastFrame,
          registered, users, resp, regs, welcome>>

connVars   == <<RoomID, rpPc, wpPc, wsClosed, written>>
busVars    == <<inbox, streamPc, streamRoom, streamOut, nreplays, arrived,
                published>>
apiVars    == <<users, resp, regs>>

\* ------------------------------------------------------------------ codec
\* A JSON object is a function from its keys to strings.
Field(obj, k) == IF k \in DOMAIN obj THEN obj[k] ELSE ""

WSMessage(type, room, content, mid) ==
    [type |-> type, room_id |-> room, content |-> content, message_id |-> mid]

\* json.Marshal of a WSMessage: message_id is tagged omitempty.
Marshal(msg) ==
    IF msg.message_id = ""
    THEN [type |-> msg.type, room_id |-> msg.room_id, content |-> msg.content]
    ELSE [type |-> msg.type, room_id |-> msg.room_id, content |-> msg.content,
          message_id |-> msg.message_id]

\* json.Unmarshal into a WSMessage: keys the struct has no tag for are dropped,
\* fields without a key stay "".
Unmarshal(obj) ==
    WSMessage(Field(obj, "type"), Field(obj, "room_id"), Field(obj, "content"),
              Field(obj, "message_id"))

\* The map SendMessage publishes (handlers.go and ChatServer alike).
MessageData(id, room, content) ==
    [id |-> id, room_id |-> room, content |-> content, message_type |-> "text"]

\* fmt.Sprintf("room:%s", roomID)
Channel(room) == <<"room:", room>>

\* The channel listenRedisMessages subscribes to.
ListenChannel == <<"room:", "*">>

Uuid(n) == UuidPool[n]

StreamUuid(n) == StreamUuidPool[n]

\* ------------------------------------------------------------- goroutines
\* A goroutine that calls broadcastToRoom: the read pump of a connection (named
\* by the connection) or the bus listener of a process (named by the process).
Threads == ConnIds \cup Procs
ProcOfThread(t) == IF t \in Procs THEN t ELSE ProcOf(t)
ThreadsOf(p) == {t \in Threads : ProcOfThread(t) = p}

NoData  == [none |-> ""]
NoFrame == [type |-> ""]
NoReq   == [op |-> "idle", c |-> ""]
NoResp  == [op |-> "none"]
NoReg   == [pc |-> "idle"]
NoWelcome == [state |-> "none", at |-> 0, queued |-> 0]
RegSlots == {"q1", "q2"}               \* Register requests served at a time
Idle == [pc |-> "idle", room |-> "", data |-> NoData, visited |-> {}, cur |-> "",
         owed |-> {}, dropped |-> {}, frame |-> NoFrame]

\* Another goroutine of the process is inside broadcastToRoom's loop over the map.
Iterating(p, self) == \E t \in ThreadsOf(p) \ {self} : bc[t].pc # "idle"

\* A map write that runs while another goroutine iterates the map is a data
\* race: it goes through, or the runtime detects it and kills the process.
WriteOutcomes(p, self) == IF Iterating(p, self) THEN {"ok", "fatal"} ELSE {"ok"}

Init ==
    /\ Connections = [p \in Procs |-> {}]
    /\ RoomID = [c \in ConnIds |-> ""]
    /\ Send = [c \in ConnIds |-> <<>>]
    /\ closed = [c \in ConnIds |-> FALSE]
    /\ hubReq = [p \in Procs |-> NoReq]
    /\ rpPc = [c \in ConnIds |-> "none"]
    /\ wpPc = [c \in ConnIds |-> "none"]
    /\ wsClosed = [c \in ConnIds |-> FALSE]
    /\ bc = [t \in Threads |-> Idle]
    /\ crashed = [p \in Procs |-> FALSE]
    /\ inbox = [s \in Procs \cup Streams |-> <<>>]
    /\ streamPc = [s \in Streams |-> "new"]
    /\ streamRoom = [s \in Streams |-> ""]
    /\ streamOut = [s \in Streams |-> <<>>]
    /\ stored = {}
    /\ nmsgs = 0
    /\ nreplays = 0
    /\ enqueued = [c \in ConnIds |-> <<>>]
    /\ unregSent = [c \in ConnIds |-> 0]
    /\ arrived = [p \in Procs |-> {}]
    /\ shutdown = [p \in Procs |-> FALSE]
    /\ frameLog = <<>>
    /\ dbCalls = 0
    /\ lsPc = [p \in Procs |-> "recv"]
    /\ now = 0
    /\ readDeadline = [c \in ConnIds |-> 0]
    /\ lastFrame = [c \in ConnIds |-> 0]
    /\ registered = {}
    /\ users = {}
    /\ resp = NoResp
    /\ regs = [q \in RegSlots |-> NoReg]
    /\ welcome = [c \in ConnIds |-> NoWelcome]
    /\ published = {}
    /\ written = [c \in ConnIds |-> <<>>]

\* ------------------------------------------------------------ connection
\* wsConn.sendMessage(welcomeMsg): what the write finds on the connection.
Welcomed(c, ok) ==
    [state |-> IF ok THEN "ok" ELSE "failed", at |-> Len(written[c]),
     queued |-> Len(Send[c])]

\* HandleWebSocket for a request with its three parameters, an upgrade that
\* succeeds and a welcome that is written, run without a pause: NewConnection,
\* the send on Hub.Register (Hub.Run receives it when it is back in its
\* select), the welcome frame, and the two pumps.
HandleWebSocket(c, room) ==
    LET p == ProcOf(c) IN
    /\ ~crashed[p]
    /\ rpPc[c] = "none"
    /\ hubReq[p] = NoReq
    /\ RoomID' = [RoomID EXCEPT ![c] = room]
    /\ hubReq' = [hubReq EXCEPT ![p] = [op |-> "register", c |-> c]]
    /\ rpPc' = [rpPc EXCEPT ![c] = "read"]
    /\ wpPc' = [wpPc EXCEPT ![c] = "run"]
    /\ readDeadline' = [readDeadline EXCEPT ![c] = now + ReadWait]
    /\ welcome' = [welcome EXCEPT ![c] = Welcomed(c, TRUE)]
    /\ UNCHANGED <<registered, dbCalls, frameLog, lastFrame, apiVars, lsPc, now,
                   shutdown, Connections, Send, closed, wsClosed, bc, crashed,
                   busVars, stored, nmsgs, enqueued, unregSent, written>>

\* The query of a socket request.
Queries == [user_id : {"", "id1"}, username : {"", "ann"}, room_id : {"", "R1"}]

\* The check without room_id.
MissingParamsNoRoom(q) == q.user_id = "" \/ q.username = ""

\* if userID == "" || username == "" || roomID == ""
MissingParams(q) == q.user_id = "" \/ q.username = "" \/ q.room_id = ""

\* HandleWebSocket with the pumps started before the welcome is sent.
WsAcceptPumpsFirst(c, q, upgradeOk) ==
    LET p == ProcOf(c) IN
    /\ ~crashed[p]
    /\ rpPc[c] = "none"
    /\ IF MissingParams(q)
       THEN /\ resp' = [op |-> "ws", query |-> q, status |-> 400]
            /\ UNCHANGED <<RoomID, hubReq, rpPc, wpPc>>
       ELSE IF ~upgradeOk
       THEN /\ resp' = [op |-> "ws", query |-> q, status |-> 0]
            /\ UNCHANGED <<RoomID, hubReq, rpPc, wpPc>>
       ELSE /\ hubReq[p] = NoReq
            /\ resp' = [op |-> "ws", query |-> q, status |-> 101]
            /\ RoomID' = [RoomID EXCEPT ![c] = q.room_id]
            /\ hubReq' = [hubReq EXCEPT ![p] = [op |-> "register", c |-> c]]
            /\ rpPc' = [rpPc EXCEPT ![c] = "new"]
            /\ wpPc' = [wpPc EXCEPT ![c] = "run"]
    /\ UNCHANGED <<welcome, registered, readDeadline, dbCalls, frameLog,
                   lastFrame, users, regs, lsPc, now, shutdown, Connections,
                   Send, closed, wsClosed, bc, crashed, busVars, stored, nmsgs,
                   enqueued, unregSent, written>>

\* HandleWebSocket up to its send on Hub.Register: the three parameters (400
\* when one is missing), the upgrade (which answers by itself when it fails),
\* NewConnection and the send, which Hub.Run receives when it is back in its
\* select.  The pumps are not started yet.
WsAccept(c, q, upgradeOk) ==
    LET p == ProcOf(c) IN
    /\ ~crashed[p]
    /\ rpPc[c] = "none"
    /\ IF MissingParams(q)
       THEN /\ resp' = [op |-> "ws", query |-> q, status |-> 400]
            /\ UNCHANGED <<RoomID, hubReq, rpPc, wpPc>>
       ELSE IF ~upgradeOk
       THEN /\ resp' = [op |-> "ws", query |-> q, status |-> 0]
            /\ UNCHANGED <<RoomID, hubReq, rpPc, wpPc>>
       ELSE /\ hubReq[p] = NoReq
            /\ resp' = [op |-> "ws", query |-> q, status |-> 101]
            /\ RoomID' = [RoomID EXCEPT ![c] = q.room_id]
            /\ hubReq' = [hubReq EXCEPT ![p] = [op |-> "register", c |-> c]]
            /\ rpPc' = [rpPc EXCEPT ![c] = "new"]
            /\ UNCHANGED wpPc
    /\ UNCHANGED <<welcome, registered, readDeadline, dbCalls, frameLog,
                   lastFrame, users, regs, lsPc, now, shutdown, Connections,
                   Send, closed, wsClosed, bc, crashed, busVars, stored, nmsgs,
                   enqueued, unregSent, written>>

\* HandleWebSocket from the welcome on: sendMessage writes the frame to the
\* socket (a failure is logged), then go readPump and go writePump.
WsWelcome(c, ok) ==
    /\ ~crashed[ProcOf(c)]
    /\ rpPc[c] = "new"
    /\ welcome' = [welcome EXCEPT ![c] = Welcomed(c, ok)]
    /\ rpPc' = [rpPc EXCEPT ![c] = "read"]
    /\ wpPc' = [wpPc EXCEPT ![c] = "run"]
    /\ readDeadline' = [readDeadline EXCEPT ![c] = now + ReadWait]
    /\ UNCHANGED <<registered, dbCalls, frameLog, lastFrame, apiVars, lsPc, now,
                   shutdown, Connections, RoomID, Send, closed, hubReq,
                   wsClosed, bc, crashed, busVars, stored, nmsgs, enqueued,
                   unregSent, written>>

\* ------------------------------------------------------------------- hub
\* Hub.Run, case conn := <-h.Register.
HubRegister(p) ==
    /\ ~crashed[p]
    /\ hubReq[p].op = "register"
    /\ hubReq' = [hubReq EXCEPT ![p] = NoReq]
    /\ \E out \in WriteOutcomes(p, "hub") :
         IF out = "fatal"
         THEN /\ crashed' = [crashed EXCEPT ![p] = TRUE]
              /\ UNCHANGED <<Connections, registered>>
         ELSE /\ Connections' = [Connections EXCEPT ![p] = @ \cup {hubReq[p].c}]
              /\ registered' = registered \cup {hubReq[p].c}
              /\ UNCHANGED crashed
    /\ UNCHANGED <<welcome, readDeadline, dbCalls, frameLog, lastFrame, apiVars,
                   lsPc, now, shutdown, connVars, Send, closed, bc, busVars,
                   stored, nmsgs, enqueued, unregSent>>

\* The Unregister case without its close(conn.Send).
HubUnregisterNoClose(p) ==
    LET c == hubReq[p].c IN
    /\ ~crashed[p]
    /\ hubReq[p].op = "unregister"
    /\ hubReq' = [hubReq EXCEPT ![p] = NoReq]
    /\ IF c \in Connections[p]
       THEN \E out \in WriteOutcomes(p, "hub") :
              IF out = "fatal" \/ closed[c]
              THEN /\ crashed' = [crashed EXCEPT ![p] = TRUE]
                   /\ UNCHANGED <<Connections, closed>>
              ELSE /\ Connections' = [Connections EXCEPT ![p] = @ \ {c}]
                   /\ UNCHANGED <<closed, crashed>>
       ELSE UNCHANGED <<Connections, closed, crashed>>
    /\ UNCHANGED <<welcome, registered, readDeadline, dbCalls, frameLog,
                   lastFrame, apiVars, lsPc, now, shutdown, connVars, Send, bc,
                   busVars, stored, nmsgs, enqueued, unregSent>>

\* The Unregister case without its lookup in the map: delete and close, for
\* whatever connection it is given.
HubUnregisterUnchecked(p) ==
    LET c == hubReq[p].c IN
    /\ ~crashed[p]
    /\ hubReq[p].op = "unregister"
    /\ hubReq' = [hubReq EXCEPT ![p] = NoReq]
    /\ IF TRUE
       THEN \E out \in WriteOutcomes(p, "hub") :
              IF out = "fatal" \/ closed[c]
              THEN /\ crashed' = [crashed EXCEPT ![p] = TRUE]
                   /\ UNCHANGED <<Connections, closed>>
              ELSE /\ Connections' = [Connections EXCEPT ![p] = @ \ {c}]
                   /\ closed' = [closed EXCEPT ![c] = TRUE]
                   /\ UNCHANGED crashed
       ELSE UNCHANGED <<Connections, closed, crashed>>
    /\ UNCHANGED <<welcome, registered, readDeadline, dbCalls, frameLog,
                   lastFrame, apiVars, lsPc, now, shutdown, connVars, Send, bc,
                   busVars, stored, nmsgs, enqueued, unregSent>>

\* Hub.Run, case conn := <-h.Unregister.
HubUnregister(p) ==
    LET c == hubReq[p].c IN
    /\ ~crashed[p]
    /\ hubReq[p].op = "unregister"
    /\ hubReq' = [hubReq EXCEPT ![p] = NoReq]
    /\ IF c \in Connections[p]
       THEN \E out \in WriteOutcomes(p, "hub") :
              IF out = "fatal" \/ closed[c]
              THEN /\ crashed' = [crashed EXCEPT ![p] = TRUE]
                   /\ UNCHANGED <<Connections, closed>>
              ELSE /\ Connections' = [Connections EXCEPT ![p] = @ \ {c}]
                   /\ closed' = [closed EXCEPT ![c] = TRUE]
                   /\ UNCHANGED crashed
       ELSE UNCHANGED <<Connections, closed, crashed>>
    /\ UNCHANGED <<welcome, registered, readDeadline, dbCalls, frameLog,
                   lastFrame, apiVars, lsPc, now, shutdown, connVars, Send, bc,
                   busVars, stored, nmsgs, enqueued, unregSent>>

\* ------------------------------------------------------- broadcastToRoom
\* The call: json.Marshal, RLock, and the start of the loop over the map.
\* owed is history of the call: the room's members whose queue had a free slot
\* when the call began and on which the call has not enqueued yet; dropped is
\* history too: the connections whose queue the call found full.  frame is what
\* the caller is handling.
BroadcastStart(t, room, msg, frame) ==
    [pc |-> "iter", room |-> room, data |-> Marshal(msg), visited |-> {},
     cur |-> "",
     owed |-> {c \in Connections[ProcOfThread(t)] :
                 RoomID[c] = room /\ Len(Send[c]) < QueueCap},
     dropped |-> {}, frame |-> frame]

\* The loop without its filter on the room.
InRoomAll(c, room) == TRUE

\* if conn.RoomID == roomID
InRoom(c, room) == RoomID[c] = room

\* The connections the loop has still to produce.
Remaining(t) ==
    {c \in Connections[ProcOfThread(t)] \ bc[t].visited : InRoom(c, bc[t].room)}

\* A panic on the goroutine: the listener has no cleanup and the process dies;
\* a read pump first runs its deferred function (RpUnregister).
Panic(t) ==
    /\ bc' = [bc EXCEPT ![t] = Idle]
    /\ IF t \in Procs
       THEN /\ crashed' = [crashed EXCEPT ![t] = TRUE]
            /\ UNCHANGED rpPc
       ELSE /\ rpPc' = [rpPc EXCEPT ![t] = "panic"]
            /\ UNCHANGED crashed

\* for _, conn := range h.hub.Connections: the next connection of the room.
BcNext(t) ==
    /\ ~crashed[ProcOfThread(t)]
    /\ bc[t].pc = "iter"
    /\ \E c \in Remaining(t) :
         bc' = [bc EXCEPT ![t].cur = c, ![t].visited = @ \cup {c},
                          ![t].pc = "select"]
    /\ UNCHANGED <<welcome, registered, readDeadline, dbCalls, frameLog,
                   lastFrame, apiVars, lsPc, now, shutdown, Connections,
                   connVars, Send, closed, hubReq, crashed, busVars, stored,
                   nmsgs, enqueued, unregSent>>

\* The send without its default branch: it waits for a free slot.
BcSelectBlocking(t) ==
    LET c == bc[t].cur IN
    /\ ~crashed[ProcOfThread(t)]
    /\ bc[t].pc = "select"
    /\ IF closed[c]
       THEN /\ Panic(t)
            /\ UNCHANGED <<Send, enqueued>>
       ELSE /\ Len(Send[c]) < QueueCap
            /\ Send' = [Send EXCEPT ![c] = Append(@, bc[t].data)]
            /\ enqueued' = [enqueued EXCEPT
                              ![c] = Append(@, Field(bc[t].data, "message_id"))]
            /\ bc' = [bc EXCEPT ![t].pc = "iter", ![t].cur = "",
                                ![t].owed = @ \ {c}]
            /\ UNCHANGED <<rpPc, crashed>>
    /\ UNCHANGED <<welcome, registered, readDeadline, dbCalls, frameLog,
                   lastFrame, apiVars, lsPc, now, shutdown, Connections, RoomID,
                   wpPc, wsClosed, closed, hubReq, busVars, stored, nmsgs,
                   unregSent, written>>

\* select { case conn.Send <- data: ... default: ... }
BcSelect(t) ==
    LET c == bc[t].cur IN
    /\ ~crashed[ProcOfThread(t)]
    /\ bc[t].pc = "select"
    /\ IF closed[c]
       THEN /\ Panic(t)
            /\ UNCHANGED <<Send, enqueued>>
       ELSE IF Len(Send[c]) < QueueCap
       THEN /\ Send' = [Send EXCEPT ![c] = Append(@, bc[t].data)]
            /\ enqueued' = [enqueued EXCEPT
                              ![c] = Append(@, Field(bc[t].data, "message_id"))]
            /\ bc' = [bc EXCEPT ![t].pc = "iter", ![t].cur = "",
                                ![t].owed = @ \ {c}]
            /\ UNCHANGED <<rpPc, crashed>>
       ELSE /\ bc' = [bc EXCEPT ![t].pc = "close", ![t].dropped = @ \cup {c}]
            /\ UNCHANGED <<Send, enqueued, rpPc, crashed>>
    /\ UNCHANGED <<welcome, registered, readDeadline, dbCalls, frameLog,
                   lastFrame, apiVars, lsPc, now, shutdown, Connections, RoomID,
                   wpPc, wsClosed, closed, hubReq, busVars, stored, nmsgs,
                   unregSent, written>>

\* default: close(conn.Send)
BcClose(t) ==
    LET c == bc[t].cur IN
    /\ ~crashed[ProcOfThread(t)]
    /\ bc[t].pc = "close"
    /\ IF closed[c]
       THEN /\ Panic(t)
            /\ UNCHANGED closed
       ELSE /\ closed' = [closed EXCEPT ![c] = TRUE]
            /\ bc' = [bc EXCEPT ![t].pc = "delete"]
            /\ UNCHANGED <<rpPc, crashed>>
    /\ UNCHANGED <<welcome, registered, readDeadline, dbCalls, frameLog,
                   lastFrame, apiVars, lsPc, now, shutdown, Connections, RoomID,
                   wpPc, wsClosed, Send, hubReq, busVars, stored, nmsgs,
                   enqueued, unregSent, written>>

\* default: delete(h.hub.Connections, conn.ID)
BcDelete(t) ==
    LET c == bc[t].cur
        p == ProcOfThread(t) IN
    /\ ~crashed[p]
    /\ bc[t].pc = "delete"
    /\ \E out \in WriteOutcomes(p, t) :
         IF out = "fatal"
         THEN /\ crashed' = [crashed EXCEPT ![p] = TRUE]
              /\ UNCHANGED <<Connections, bc>>
         ELSE /\ Connections' = [Connections EXCEPT ![p] = @ \ {c}]
              /\ bc' = [bc EXCEPT ![t].pc = "iter", ![t].cur = ""]
              /\ UNCHANGED crashed
    /\ UNCHANGED <<welcome, registered, readDeadline, dbCalls, frameLog,
                   lastFrame, apiVars, lsPc, now, shutdown, connVars, Send,
                   closed, hubReq, busVars, stored, nmsgs, enqueued, unregSent>>

\* ------------------------------------------------------------------- bus
\* A subscription that would receive every channel with its prefix.
DeliversPrefix(subscription, channel) == subscription[1] = channel[1]

\* RedisClient.Subscribe is client.Subscribe: the name it is given is a channel
\* name, compared as a whole with the channel of a published message.
Delivers(subscription, channel) == subscription = channel

Subscribers == Procs \cup Streams

Subscribed(s, channel) ==
    IF s \in Procs
    THEN ~crashed[s] /\ Delivers(ListenChannel, channel)
    ELSE streamPc[s] \in {"run", "retry"}
         /\ Delivers(Channel(streamRoom[s]), channel)

\* RedisClient.Publish that succeeds: one copy for every subscription.
Published(channel, payload) ==
    [s \in Subscribers |->
        IF Subscribed(s, channel) THEN Append(inbox[s], payload) ELSE inbox[s]]

\* History of an accepted Publish: the payload, the process it came from and
\* the connections registered in the room, on any process, at that moment.
Publication(payload, from, room) ==
    [payload |-> payload, from |-> from,
     members |-> {c \in ConnIds : c \in Connections[ProcOf(c)] /\ RoomID[c] = room}]

\* ------------------------------------------------------------- read pump
Frames == [type : FrameTypes, content : Contents, message_id : ClientMsgIds,
           room_id : Rooms]

\* handleMessage's switch: the envelope the handler of the frame broadcasts.
Envelope(c, frame, id) ==
    CASE frame.type = "message" -> WSMessage("message", RoomID[c], frame.content, id)
      [] frame.type = "join"    -> WSMessage("join", RoomID[c], "joined the room", id)
      [] frame.type = "leave"   -> WSMessage("leave", RoomID[c], "left the room", id)
      [] frame.type = "typing"  -> WSMessage("typing", RoomID[c], frame.content, id)

\* The handlers that return before broadcasting when the storage call fails.
StopsOnDbError(type) == type \in {"message", "join"}

\* handleMessage's switch with its default case handling the frame as a chat
\* message.
KindDefaultChat(type) ==
    IF type \in {"message", "join", "leave", "typing"} THEN type
    ELSE IF type = "malformed" THEN "none" ELSE "message"

\* The case handleMessage's switch takes: "none" for a frame json.Unmarshal
\* rejects (readPump continues before handleMessage) and for the default case.
Kind(type) ==
    IF type \in {"message", "join", "leave", "typing"} THEN type ELSE "none"

\* The frame as the handler of its case sees it.
Dispatched(frame) == [frame EXCEPT !.type = Kind(frame.type)]

\* A connection whose broadcasts go to the room its frame names.
NamedRoom(c, frame) == frame.room_id

\* The room the handlers broadcast to: conn.RoomID, whatever the frame names.
BoundRoom(c, frame) == RoomID[c]

\* Handlers that all insert a row in the messages table.
PersistedAll(kind) == TRUE

\* The handlers that insert a row in the messages table.
Persisted(kind) == kind = "message"

\* The storage calls the handler of a frame makes: the INSERT of
\* handleChatMessage; the INSERT and, when it succeeds, the UPDATE of
\* handleJoinRoom; the DELETE of handleLeaveRoom; none in handleTyping.
DbCalls(kind, dbOk) ==
    CASE kind = "message" -> 1
      [] kind = "join"    -> IF dbOk THEN 2 ELSE 1
      [] kind = "leave"   -> 1
      [] OTHER            -> 0

\* readPump: ReadMessage returns a frame before the read deadline;
\* json.Unmarshal; handleMessage up to the call of broadcastToRoom.
RpRead(c, frame, dbOk) ==
    LET id == Uuid(nmsgs + 1)
        f == Dispatched(frame) IN
    /\ ~crashed[ProcOf(c)]
    /\ rpPc[c] = "read"
    /\ ~wsClosed[c]
    /\ now <= readDeadline[c]
    /\ frameLog' = Append(frameLog, [c |-> c, type |-> frame.type])
    /\ lastFrame' = [lastFrame EXCEPT ![c] = now]
    /\ dbCalls' = dbCalls + DbCalls(f.type, dbOk)
    /\ IF f.type = "none"
       THEN UNCHANGED <<rpPc, bc, stored, nmsgs>>
       ELSE /\ nmsgs' = nmsgs + 1
            /\ IF StopsOnDbError(f.type) /\ ~dbOk
               THEN UNCHANGED <<rpPc, bc, stored>>
               ELSE /\ stored' = IF Persisted(f.type)
                                 THEN stored \cup {[id |-> id, user_id |-> c]}
                                 ELSE stored
                    /\ rpPc' = [rpPc EXCEPT ![c] = "handle"]
                    /\ bc' = [bc EXCEPT ![c] =
                                BroadcastStart(c, BoundRoom(c, f), Envelope(c, f, id),
                                               frame)]
    /\ UNCHANGED <<welcome, registered, readDeadline, apiVars, lsPc, now,
                   shutdown, Connections, RoomID, wpPc, wsClosed, Send, closed,
                   hubReq, crashed, busVars, enqueued, unregSent, written>>

\* broadcastToRoom returns to the handler; handleChatMessage then calls
\* publishToRedis, whose error is only logged.
RpReturn(c, busOk) ==
    /\ ~crashed[ProcOf(c)]
    /\ rpPc[c] = "handle"
    /\ bc[c].pc = "iter"
    /\ Remaining(c) = {}
    /\ bc' = [bc EXCEPT ![c] = Idle]
    /\ rpPc' = [rpPc EXCEPT ![c] = "read"]
    /\ IF bc[c].frame.type = "message" /\ busOk
       THEN /\ inbox' = Published(Channel(RoomID[c]), bc[c].data)
            /\ published' = published \cup
                              {Publication(bc[c].data, ProcOf(c), RoomID[c])}
       ELSE UNCHANGED <<inbox, published>>
    /\ UNCHANGED <<welcome, registered, readDeadline, dbCalls, frameLog,
                   lastFrame, apiVars, lsPc, now, shutdown, Connections, RoomID,
                   wpPc, wsClosed, Send, closed, hubReq, crashed, streamPc,
                   streamRoom, streamOut, nreplays, arrived, stored, nmsgs,
                   enqueued, unregSent, written>>

\* A read pump that leaves its loop without the deferred function.
RpReadErrorNoDefer(c) ==
    /\ ~crashed[ProcOf(c)]
    /\ rpPc[c] = "read"
    /\ rpPc' = [rpPc EXCEPT ![c] = "done"]
    /\ wsClosed' = [wsClosed EXCEPT ![c] = TRUE]
    /\ UNCHANGED <<welcome, registered, readDeadline, dbCalls, frameLog,
                   lastFrame, apiVars, lsPc, now, shutdown, Connections, RoomID,
                   wpPc, Send, closed, hubReq, bc, crashed, busVars, stored,
                   nmsgs, enqueued, unregSent, written>>

\* readPump: ReadMessage returns an error (peer close, read deadline, frame over
\* the read limit, socket closed by the write pump): break.
RpReadError(c) ==
    /\ ~crashed[ProcOf(c)]
    /\ rpPc[c] = "read"
    /\ rpPc' = [rpPc EXCEPT ![c] = "exit"]
    /\ UNCHANGED <<welcome, registered, readDeadline, dbCalls, frameLog,
                   lastFrame, apiVars, lsPc, now, shutdown, Connections, RoomID,
                   wpPc, wsClosed, Send, closed, hubReq, bc, crashed, busVars,
                   stored, nmsgs, enqueued, unregSent, written>>

\* readPump: ReadMessage fails because the read deadline has passed.
RpDeadline(c) == now > readDeadline[c] /\ RpReadError(c)

\* The pong handler, which ReadMessage runs when a pong arrives before the
\* deadline: SetReadDeadline(time.Now().Add(60 * time.Second)).
Pong(c) ==
    /\ ~crashed[ProcOf(c)]
    /\ rpPc[c] = "read"
    /\ ~wsClosed[c]
    /\ now <= readDeadline[c]
    /\ readDeadline' = [readDeadline EXCEPT ![c] = now + ReadWait]
    /\ UNCHANGED <<welcome, registered, Connections, connVars, Send, closed,
                   hubReq, bc, crashed, busVars, apiVars, stored, nmsgs,
                   enqueued, unregSent, shutdown, frameLog, dbCalls, lsPc, now,
                   lastFrame>>

\* Time passes.
Tick ==
    /\ now + TickStep <= MaxTime
    /\ now' = now + TickStep
    /\ UNCHANGED <<welcome, registered, Connections, connVars, Send, closed,
                   hubReq, bc, crashed, busVars, apiVars, stored, nmsgs,
                   enqueued, unregSent, shutdown, frameLog, dbCalls, lsPc,
                   readDeadline, lastFrame>>

\* readPump's deferred function: the send on Hub.Unregister, then wsConn.Close().
\* It also runs while a panic unwinds the goroutine; the process dies after it.
RpUnregister(c) ==
    LET p == ProcOf(c) IN
    /\ ~crashed[p]
    /\ rpPc[c] \in {"exit", "panic"}
    /\ hubReq[p] = NoReq
    /\ hubReq' = [hubReq EXCEPT ![p] = [op |-> "unregister", c |-> c]]
    /\ unregSent' = [unregSent EXCEPT ![c] = @ + 1]
    /\ wsClosed' = [wsClosed EXCEPT ![c] = TRUE]
    /\ rpPc' = [rpPc EXCEPT ![c] = "done"]
    /\ crashed' = IF rpPc[c] = "panic" THEN [crashed EXCEPT ![p] = TRUE] ELSE crashed
    /\ UNCHANGED <<welcome, registered, readDeadline, dbCalls, frameLog,
                   lastFrame, apiVars, lsPc, now, shutdown, Connections, RoomID,
                   wpPc, Send, closed, bc, busVars, stored, nmsgs, enqueued,
                   written>>

\* ------------------------------------------------------------ bus listener
\* listenRedisMessages: ReceiveMessage, json.Unmarshal, broadcastToRoom.
LsReceive(p) ==
    LET payload == Head(inbox[p])
        wsMsg == Unmarshal(payload) IN
    /\ ~crashed[p]
    /\ lsPc[p] = "recv"
    /\ bc[p].pc = "idle"
    /\ inbox[p] # <<>>
    /\ inbox' = [inbox EXCEPT ![p] = Tail(@)]
    /\ arrived' = [arrived EXCEPT ![p] = @ \cup {payload}]
    /\ bc' = [bc EXCEPT ![p] =
                BroadcastStart(p, wsMsg.room_id, wsMsg,
                               [type |-> "bus", again |-> payload \in arrived[p]])]
    /\ UNCHANGED <<welcome, registered, readDeadline, dbCalls, frameLog,
                   lastFrame, apiVars, lsPc, now, shutdown, Connections,
                   connVars, Send, closed, hubReq, crashed, streamPc,
                   streamRoom, streamOut, nreplays, stored, nmsgs, enqueued,
                   unregSent, published>>

\* broadcastToRoom returns to listenRedisMessages.
LsReturn(p) ==
    /\ ~crashed[p]
    /\ bc[p].pc = "iter"
    /\ Remaining(p) = {}
    /\ bc' = [bc EXCEPT ![p] = Idle]
    /\ UNCHANGED <<welcome, registered, readDeadline, dbCalls, frameLog,
                   lastFrame, apiVars, lsPc, now, shutdown, Connections,
                   connVars, Send, closed, hubReq, crashed, busVars, stored,
                   nmsgs, enqueued, unregSent>>

\* listenRedisMessages with a return in the error branch of ReceiveMessage.
LsReceiveErrorReturn(p) ==
    /\ ~crashed[p]
    /\ lsPc[p] = "recv"
    /\ bc[p].pc = "idle"
    /\ lsPc' = [lsPc EXCEPT ![p] = "stopped"]
    /\ UNCHANGED <<welcome, registered, Connections, connVars, Send, closed,
                   hubReq, bc, crashed, busVars, apiVars, stored, nmsgs,
                   enqueued, unregSent, shutdown, frameLog, dbCalls, now,
                   readDeadline, lastFrame>>

\* listenRedisMessages: ReceiveMessage returns an error, which is logged.
LsReceiveError(p) ==
    /\ ~crashed[p]
    /\ lsPc[p] = "recv"
    /\ bc[p].pc = "idle"
    /\ lsPc' = [lsPc EXCEPT ![p] = "logged"]
    /\ UNCHANGED <<welcome, registered, Connections, connVars, Send, closed,
                   hubReq, bc, crashed, busVars, apiVars, stored, nmsgs,
                   enqueued, unregSent, shutdown, frameLog, dbCalls, now,
                   readDeadline, lastFrame>>

\* listenRedisMessages after the logged error: continue, back to ReceiveMessage.
LsRetry(p) ==
    /\ ~crashed[p]
    /\ lsPc[p] = "logged"
    /\ lsPc' = [lsPc EXCEPT ![p] = "recv"]
    /\ UNCHANGED <<welcome, registered, Connections, connVars, Send, closed,
                   hubReq, bc, crashed, busVars, apiVars, stored, nmsgs,
                   enqueued, unregSent, shutdown, frameLog, dbCalls, now,
                   readDeadline, lastFrame>>

\* ------------------------------------------------------------ write pump
\* websocket.CloseMessage and websocket.PingMessage frames.
CloseFrame == [type |-> "close"]
PingFrame == [type |-> "ping"]

\* What a write of writePump leaves on the socket: the frame's message_id (its
\* type for a control frame) when it goes out, "lost" when the socket had been
\* closed before the write, "error" when the write fails on the open socket.
Wrote(frame, ok, isClosed) ==
    IF isClosed THEN "lost"
    ELSE IF ~ok THEN "error"
    ELSE IF "message_id" \in DOMAIN frame THEN frame.message_id
    ELSE frame.type

\* writePump, case message, ok := <-conn.Send with a message: the write to the
\* socket succeeds, or fails and the pump returns (wsConn.Close() deferred).
WpWrite(c, ok) ==
    /\ ~crashed[ProcOf(c)]
    /\ wpPc[c] = "run"
    /\ Send[c] # <<>>
    /\ ok => ~wsClosed[c]
    /\ Send' = [Send EXCEPT ![c] = Tail(@)]
    /\ wpPc' = [wpPc EXCEPT ![c] = IF ok THEN "run" ELSE "done"]
    /\ written' = [written EXCEPT ![c] = Append(@, Wrote(Head(Send[c]), ok, wsClosed[c]))]
    /\ wsClosed' = [wsClosed EXCEPT ![c] = @ \/ ~ok]
    /\ UNCHANGED <<welcome, registered, readDeadline, dbCalls, frameLog,
                   lastFrame, apiVars, lsPc, now, shutdown, Connections, RoomID,
                   rpPc, closed, hubReq, bc, crashed, busVars, stored, nmsgs,
                   enqueued, unregSent>>

\* writePump, case message, ok := <-conn.Send on the closed, drained channel:
\* the close frame, then return.
WpClosed(c) ==
    /\ ~crashed[ProcOf(c)]
    /\ wpPc[c] = "run"
    /\ Send[c] = <<>>
    /\ closed[c]
    /\ wpPc' = [wpPc EXCEPT ![c] = "done"]
    /\ written' = [written EXCEPT ![c] = Append(@, Wrote(CloseFrame, TRUE, wsClosed[c]))]
    /\ wsClosed' = [wsClosed EXCEPT ![c] = TRUE]
    /\ UNCHANGED <<welcome, registered, readDeadline, dbCalls, frameLog,
                   lastFrame, apiVars, lsPc, now, shutdown, Connections, RoomID,
                   rpPc, Send, closed, hubReq, bc, crashed, busVars, stored,
                   nmsgs, enqueued, unregSent>>

\* writePump, case <-ticker.C: the ping cannot be written and the pump returns.
WpPingError(c) ==
    /\ ~crashed[ProcOf(c)]
    /\ wpPc[c] = "run"
    /\ wpPc' = [wpPc EXCEPT ![c] = "done"]
    /\ written' = [written EXCEPT ![c] = Append(@, Wrote(PingFrame, FALSE, wsClosed[c]))]
    /\ wsClosed' = [wsClosed EXCEPT ![c] = TRUE]
    /\ UNCHANGED <<welcome, registered, readDeadline, dbCalls, frameLog,
                   lastFrame, apiVars, lsPc, now, shutdown, Connections, RoomID,
                   rpPc, Send, closed, hubReq, bc, crashed, busVars, stored,
                   nmsgs, enqueued, unregSent>>

\* ------------------------------------------------- request/response origins
\* A SendMessage that would go on to Publish after a failed INSERT.
PublishesUnstored(dbOk, busOk) == busOk

\* SendMessage returns after a failed INSERT; Publish is reached only past it.
Publishes(dbOk, busOk) == dbOk /\ busOk

\* Handler.SendMessage and ChatServer.SendMessage: uuid, INSERT, Publish of the
\* messageData map, and the answer: 500 (codes.Internal) after a failed
\* INSERT, else 201 (Success) with the message id, whatever Publish returned.
\* Neither calls broadcastToRoom.
SendMessage(room, content, dbOk, busOk) ==
    LET id == Uuid(nmsgs + 1) IN
    /\ nmsgs' = nmsgs + 1
    /\ dbCalls' = dbCalls + 1
    /\ stored' = IF dbOk THEN stored \cup {[id |-> id, user_id |-> "api"]}
                 ELSE stored
    /\ resp' = IF dbOk
               THEN [op |-> "send", status |-> 201, message_id |-> id]
               ELSE [op |-> "send", status |-> 500, message_id |-> ""]
    /\ IF Publishes(dbOk, busOk)
       THEN /\ inbox' = Published(Channel(room), MessageData(id, room, content))
            /\ published' = published \cup
                              {Publication(MessageData(id, room, content), "", room)}
       ELSE UNCHANGED <<inbox, published>>
    /\ UNCHANGED <<welcome, registered, readDeadline, frameLog, lastFrame,
                   users, regs, lsPc, now, shutdown, Connections, connVars,
                   Send, closed, hubReq, bc, crashed, streamPc, streamRoom,
                   streamOut, nreplays, arrived, enqueued, unregSent>>

HttpSendMessage(room, content, dbOk, busOk) == SendMessage(room, content, dbOk, busOk)

RpcSendMessage(room, content, dbOk, busOk) == SendMessage(room, content, dbOk, busOk)

\* ChatServer.StreamMessages up to its loop: Subscribe and the initial message.
StreamStart(s, room, ok) ==
    /\ streamPc[s] = "new"
    /\ streamRoom' = [streamRoom EXCEPT ![s] = room]
    /\ streamPc' = [streamPc EXCEPT ![s] = IF ok THEN "run" ELSE "done"]
    /\ streamOut' = IF ok
                    THEN [streamOut EXCEPT ![s] =
                            Append(@, [id |-> StreamUuid(1), type |-> "system",
                                       content |-> "Connected to message stream"])]
                    ELSE streamOut
    /\ UNCHANGED <<welcome, registered, readDeadline, dbCalls, frameLog,
                   lastFrame, apiVars, lsPc, now, shutdown, Connections,
                   connVars, Send, closed, hubReq, bc, crashed, inbox, nreplays,
                   arrived, stored, nmsgs, enqueued, unregSent, published>>

\* The message StreamMessages builds from a received bus message.
StreamMsg(payload, id) == [id |-> id, type |-> "text", content |-> payload]

\* StreamMessages' loop: ReceiveMessage returns a message and it is sent on, or
\* the send fails and the call returns (pubsub.Close() deferred).
StreamRecv(s, ok) ==
    /\ streamPc[s] = "run"
    /\ inbox[s] # <<>>
    /\ IF ok
       THEN /\ streamOut' = [streamOut EXCEPT ![s] =
                               Append(@, StreamMsg(Head(inbox[s]),
                                                   StreamUuid(Len(streamOut[s]) + 1)))]
            /\ inbox' = [inbox EXCEPT ![s] = Tail(@)]
            /\ UNCHANGED streamPc
       ELSE /\ streamPc' = [streamPc EXCEPT ![s] = "done"]
            /\ inbox' = [inbox EXCEPT ![s] = <<>>]
            /\ UNCHANGED streamOut
    /\ UNCHANGED <<welcome, registered, readDeadline, dbCalls, frameLog,
                   lastFrame, apiVars, lsPc, now, shutdown, Connections,
                   connVars, Send, closed, hubReq, bc, crashed, streamRoom,
                   nreplays, arrived, stored, nmsgs, enqueued, unregSent,
                   published>>

\* StreamMessages' loop: ReceiveMessage returns an error, which is logged.
StreamRecvError(s) ==
    /\ streamPc[s] = "run"
    /\ streamPc' = [streamPc EXCEPT ![s] = "retry"]
    /\ UNCHANGED <<welcome, registered, readDeadline, dbCalls, frameLog,
                   lastFrame, apiVars, lsPc, now, shutdown, Connections,
                   connVars, Send, closed, hubReq, bc, crashed, inbox,
                   streamRoom, streamOut, nreplays, arrived, stored, nmsgs,
                   enqueued, unregSent, published>>

\* StreamMessages' loop after a logged receive error: continue, back to the
\* select at the head of the loop with the same subscription.
StreamRetry(s) ==
    /\ streamPc[s] = "retry"
    /\ streamPc' = [streamPc EXCEPT ![s] = "run"]
    /\ UNCHANGED <<welcome, registered, readDeadline, dbCalls, frameLog,
                   lastFrame, apiVars, lsPc, now, shutdown, Connections,
                   connVars, Send, closed, hubReq, bc, crashed, inbox,
                   streamRoom, streamOut, nreplays, arrived, stored, nmsgs,
                   enqueued, unregSent, published>>

\* StreamMessages' loop: the call's context is done.
StreamCancel(s) ==
    /\ streamPc[s] = "run"
    /\ streamPc' = [streamPc EXCEPT ![s] = "done"]
    /\ inbox' = [inbox EXCEPT ![s] = <<>>]
    /\ UNCHANGED <<welcome, registered, readDeadline, dbCalls, frameLog,
                   lastFrame, apiVars, lsPc, now, shutdown, Connections,
                   connVars, Send, closed, hubReq, bc, crashed, streamRoom,
                   streamOut, nreplays, arrived, stored, nmsgs, enqueued,
                   unregSent, published>>

\* A publisher on the shared bus publishes again a message it published before:
\* the subscription receives the same payload a second time.
BusReplay(s) ==
    /\ inbox[s] # <<>>
    /\ nreplays < MaxReplays
    /\ nreplays' = nreplays + 1
    /\ inbox' = [inbox EXCEPT ![s] = <<Head(@)>> \o @]
    /\ UNCHANGED <<welcome, registered, readDeadline, dbCalls, frameLog,
                   lastFrame, apiVars, lsPc, now, shutdown, Connections,
                   connVars, Send, closed, hubReq, bc, crashed, streamPc,
                   streamRoom, streamOut, arrived, stored, nmsgs, enqueued,
                   unregSent, published>>

\* main: the interrupt signal arrives and httpServer.Shutdown is called.  The
\* hub, the pumps and the handlers already running are told nothing.
Shutdown(p) ==
    /\ ~shutdown[p]
    /\ ~crashed[p]
    /\ shutdown' = [shutdown EXCEPT ![p] = TRUE]
    /\ UNCHANGED <<welcome, registered, readDeadline, dbCalls, frameLog,
                   lastFrame, apiVars, lsPc, now, Connections, connVars, Send,
                   closed, hubReq, bc, crashed, busVars, stored, nmsgs,
                   enqueued, unregSent>>

\* ------------------------------------------------------------- HTTP API
\* Everything but the users table and the response: the API handlers below
\* leave it alone.
socketVars == <<Connections, connVars, Send, closed, hubReq, bc, crashed,
                busVars, stored, nmsgs, enqueued, unregSent, shutdown,
                frameLog, dbCalls, lsPc, now, readDeadline, lastFrame,
                registered, welcome>>

MaxUsers == 2       \* rows of the users table

\* binding:"required,min=6" on UserRequest.Password
MinPassword == 6

\* The key generateJWT signs with and AuthMiddleware's key function returns.
Secret == "your-secret-key"

Usernames == {"ann", "bob"}
\* An email field is local@domain; a string without "@" has domain "", the
\* field that is absent from the payload has both parts empty.
EmailValues == [local : {"", "ann", "bob"}, domain : {"", "x.io"}]
PasswordValues == {"", "short", "secret1"}
UserRequests == [username : {""} \cup Usernames, email : EmailValues,
                 password : PasswordValues]
LoginRequests == [email : EmailValues, password : PasswordValues]
UserUuidPool == <<"id1", "id2", "id3">>

\* validator tags: required rejects the zero value, email wants local@domain.
Required(v) == v # ""
RequiredEmail(e) == e.local # "" \/ e.domain # ""
IsEmail(e) == e.local # "" /\ e.domain # ""

\* The binding of a UserRequest without the minimum length of the password.
BindUserRequestNoMin(req) ==
    /\ Required(req.username)
    /\ RequiredEmail(req.email) /\ IsEmail(req.email)
    /\ Required(req.password)

\* The binding of a LoginRequest without the email format.
BindLoginRequestNoFormat(req) ==
    /\ RequiredEmail(req.email)
    /\ Required(req.password)

\* c.ShouldBindJSON(&req) for a UserRequest / a LoginRequest returns no error.
BindUserRequest(req) ==
    /\ Required(req.username)
    /\ RequiredEmail(req.email) /\ IsEmail(req.email)
    /\ Required(req.password) /\ Len(req.password) >= MinPassword

BindLoginRequest(req) ==
    /\ RequiredEmail(req.email) /\ IsEmail(req.email)
    /\ Required(req.password)

\* bcrypt.GenerateFromPassword and bcrypt.CompareHashAndPassword.
Hash(password) == <<"bcrypt", password>>
CompareHashAndPassword(hash, password) == hash = Hash(password)

\* A claim value as jwt.MapClaims holds it, with its dynamic type.
Str(v) == [t |-> "string", v |-> v]
Claim(claims, k) == IF k \in DOMAIN claims THEN claims[k] ELSE [t |-> "nil", v |-> ""]

\* generateJWT: HS256 over user_id, username and an expiry a day ahead.
GenerateJWT(userID, username) ==
    [wellformed |-> TRUE, alg |-> "HS256", key |-> Secret, exp |-> "future",
     claims |-> [user_id |-> Str(userID), username |-> Str(username)]]

\* Tokens a client may present: the signing method named in the header, the key
\* the signature was made with, the expiry, and the claims.
ClaimValues == {Str("id1"), [t |-> "number", v |-> "7"]}
ClaimSets ==
    {[user_id |-> a, username |-> b] : a \in ClaimValues, b \in {Str("ann")}}
      \cup {[user_id |-> a] : a \in {Str("id1")}}
      \cup {[username |-> b] : b \in {Str("ann")}}
Malformed == [wellformed |-> FALSE]
AuthTokens ==
    {[wellformed |-> TRUE, alg |-> a, key |-> k, exp |-> e, claims |-> cl] :
        a \in {"HS256", "RS256", "none"}, k \in {Secret, "other"},
        e \in {"future", "past"}, cl \in ClaimSets}
      \cup {Malformed}
NoHeader == [present |-> FALSE]
Headers ==
    {NoHeader} \cup {[present |-> TRUE, bearer |-> b, token |-> t] :
                       b \in BOOLEAN, t \in AuthTokens}

\* tokenString after the "Bearer " prefix, when there is one, is cut off.
TokenString(header) == header.token

\* jwt.Parse that skips the check of the signature.
JwtParseUnverified(tok, key) == tok.wellformed /\ tok.exp # "past"

\* jwt.Parse(tokenString, keyFunc) returns no error and token.Valid: the string
\* has its three segments, the key fits the signing method of the header (a
\* byte slice fits the HMAC methods only), the signature verifies under the
\* key, and the expiry, when present, has not passed.
JwtParse(tok, key) ==
    /\ tok.wellformed
    /\ tok.alg = "HS256"
    /\ tok.key = key
    /\ tok.exp # "past"

\* Handler.AuthMiddleware followed, when it calls c.Next(), by the protected
\* handler: the status, whether the chain was aborted, whether the protected
\* handler ran, and the keys set in the context.
NoCtx == [set |-> FALSE]

Unauthorized(header) ==
    [op |-> "auth", header |-> header, status |-> 401, aborted |-> TRUE,
     ran |-> FALSE, ctx |-> NoCtx]

AuthResponse(header) ==
    IF ~header.present THEN Unauthorized(header)
    ELSE LET tok == TokenString(header) IN
         IF ~JwtParse(tok, Secret) THEN Unauthorized(header)
         ELSE IF Claim(tok.claims, "user_id").t # "string" THEN Unauthorized(header)
         ELSE IF Claim(tok.claims, "username").t # "string" THEN Unauthorized(header)
         ELSE [op |-> "auth", header |-> header, status |-> 200, aborted |-> FALSE,
               ran |-> TRUE,
               ctx |-> [set |-> TRUE, user_id |-> tok.claims.user_id.v,
                        username |-> tok.claims.username.v]]

AuthMiddleware(header) ==
    /\ resp' = AuthResponse(header)
    /\ UNCHANGED <<socketVars, users, regs>>

\* SELECT id FROM users WHERE email = $1 OR username = $2 has a row.
Taken(req) ==
    \E u \in users : u.email = req.email \/ u.username = req.username

\* A users table without its UNIQUE columns.
ConflictsNever(row) == FALSE

\* The users table: username and email are UNIQUE.
Conflicts(row) ==
    \E u \in users : u.email = row.email \/ u.username = row.username

\* Handler.Register.  found: the SELECT's Scan returned no error; insOk: the
\* INSERT returned no error.  calls counts the storage calls of the request.
Register(req, selOk, insOk) ==
    LET taken == Taken(req)
        found == selOk /\ taken
        userID == UserUuidPool[Cardinality(users) + 1]
        row == [id |-> userID, username |-> req.username, email |-> req.email,
                password |-> Hash(req.password), status |-> "offline"]
        answer(status, message, calls) ==
            [op |-> "register", req |-> req, status |-> status,
             message |-> message, calls |-> calls,
             token |-> IF status = 201 THEN GenerateJWT(userID, req.username)
                       ELSE Malformed]
    IN
    /\ IF ~BindUserRequest(req)
       THEN /\ resp' = answer(400, "", 0)
            /\ UNCHANGED users
       ELSE IF found
       THEN /\ resp' = answer(409, "", 1)
            /\ UNCHANGED users
       ELSE IF ~insOk \/ Conflicts(row)
       THEN /\ resp' = answer(500, "", 2)
            /\ UNCHANGED users
       ELSE /\ resp' = answer(201, "User created successfully", 2)
            /\ users' = users \cup {row}
    /\ UNCHANGED <<socketVars, regs>>

\* Handler.Register of a request served while others are: ShouldBindJSON and
\* the SELECT.  selOk: the SELECT's Scan returned no error when a row matches.
RegisterSelect(q, req, selOk) ==
    /\ regs[q].pc = "idle"
    /\ regs' = [regs EXCEPT ![q] =
                  IF ~BindUserRequest(req)
                  THEN [pc |-> "done", req |-> req, status |-> 400]
                  ELSE IF selOk /\ Taken(req)
                  THEN [pc |-> "done", req |-> req, status |-> 409]
                  ELSE [pc |-> "insert", req |-> req, status |-> 0]]
    /\ UNCHANGED <<socketVars, users, resp>>

\* Handler.Register of that request, from the hash to the response: the
\* INSERT, which the table refuses when it breaks a UNIQUE column.
RegisterInsert(q, insOk) ==
    LET req == regs[q].req
        userID == UserUuidPool[Cardinality(users) + 1]
        row == [id |-> userID, username |-> req.username, email |-> req.email,
                password |-> Hash(req.password), status |-> "offline"]
    IN
    /\ regs[q].pc = "insert"
    /\ IF ~insOk \/ Conflicts(row)
       THEN /\ regs' = [regs EXCEPT ![q].pc = "done", ![q].status = 500]
            /\ UNCHANGED users
       ELSE /\ regs' = [regs EXCEPT ![q].pc = "done", ![q].status = 201]
            /\ users' = users \cup {row}
    /\ UNCHANGED <<socketVars, resp>>

\* Handler.Login.  selOk: the SELECT ran; row: the row its Scan filled;
\* updOk: the UPDATE of the status went through.
Login(req, selOk, updOk) ==
    LET rows == {u \in users : u.email = req.email}
        answer(status, message, calls, u) ==
            [op |-> "login", req |-> req, status |-> status,
             message |-> message, calls |-> calls,
             token |-> IF status = 200 THEN GenerateJWT(u.id, u.username)
                       ELSE Malformed]
    IN
    /\ IF ~BindLoginRequest(req)
       THEN /\ resp' = answer(400, "", 0, Malformed)
            /\ UNCHANGED users
       ELSE IF ~selOk \/ rows = {}
       THEN /\ resp' = answer(401, "", 1, Malformed)
            /\ UNCHANGED users
       ELSE \E u \in rows :
              IF ~CompareHashAndPassword(u.password, req.password)
              THEN /\ resp' = answer(401, "", 1, u)
                   /\ UNCHANGED users
              ELSE /\ resp' = answer(200, "Login successful", 2, u)
                   /\ users' = IF updOk
                               THEN (users \ {u}) \cup {[u EXCEPT !.status = "online"]}
                               ELSE users
    /\ UNCHANGED <<socketVars, regs>>

\* ---------------------------------------------------------- specification
\* The goroutines of the socket side of the processes procs: rooms[c] are the
\* rooms a client may name when it opens connection c, frames the frames clients
\* send, max the number of messages that may enter.
SocketNext(procs, conns, rooms, frames, max) ==
    \/ \E c \in conns : \E room \in rooms[c] : HandleWebSocket(c, room)
    \/ \E p \in procs : HubRegister(p)
    \/ \E c \in conns, f \in frames, dbOk \in BOOLEAN :
         nmsgs < max /\ Len(frameLog) < max /\ RpRead(c, f, dbOk)
    \/ \E c \in conns, busOk \in BOOLEAN : RpReturn(c, busOk)
    \/ \E t \in conns \cup procs : BcNext(t)
    \/ \E t \in conns \cup procs : BcSelect(t)
    \/ \E t \in conns \cup procs : BcClose(t)
    \/ \E t \in conns \cup procs : BcDelete(t)
    \/ \E p \in procs : LsReceive(p)
    \/ \E p \in procs : LsReturn(p)
    \/ \E c \in conns : WpWrite(c, TRUE)
    \/ \E c \in conns : WpClosed(c)

\* The end of a connection: a read error, a failed write, a failed ping, the
\* read pump's deferred Unregister and the hub's handling of it.
TeardownNext(procs, conns) ==
    \/ \E c \in conns : RpReadError(c)
    \/ \E c \in conns : RpUnregister(c)
    \/ \E p \in procs : HubUnregister(p)
    \/ \E c \in conns : WpWrite(c, FALSE)
    \/ \E c \in conns : WpPingError(c)

\* The request/response origins, the streaming call and the replaying publisher.
GatewayNext(max) ==
    \/ \E r \in Rooms, x \in Contents, dbOk \in BOOLEAN, busOk \in BOOLEAN :
         nmsgs < max /\ HttpSendMessage(r, x, dbOk, busOk)
    \/ \E r \in Rooms, x \in Contents, dbOk \in BOOLEAN, busOk \in BOOLEAN :
         nmsgs < max /\ RpcSendMessage(r, x, dbOk, busOk)
    \/ \E s \in Streams, r \in Rooms, ok \in BOOLEAN : StreamStart(s, r, ok)
    \/ \E s \in Streams, ok \in BOOLEAN : StreamRecv(s, ok)
    \/ \E s \in Streams : StreamRecvError(s)
    \/ \E s \in Streams : StreamRetry(s)
    \/ \E s \in Streams : StreamCancel(s)
    \/ \E s \in Subscribers : BusReplay(s)

ChatFrames == {f \in Frames : f.type = "message"}

\* One process and its sockets: the registry, the pumps, the broadcasts of the
\* read pumps and of the bus listener.
HubRooms == [c \in ConnIds |-> IF c = "c1" THEN {"R1"} ELSE Rooms]

Next ==
    \/ SocketNext({"A"}, {"c1", "c2"}, HubRooms, ChatFrames, MaxMsgs)
    \/ TeardownNext({"A"}, {"c1", "c2"})

Spec == Init /\ [][Next]_vars

\* Two processes on one bus, with every origin; the sockets stay up.
BusRooms == [c \in ConnIds |-> Rooms]

NextBus ==
    \/ SocketNext(Procs, {"c1", "c3"}, BusRooms, ChatFrames, MaxBusMsgs)
    \/ GatewayNext(MaxBusMsgs)

SpecBus == Init /\ [][NextBus]_vars

\* One process with one socket, and the interrupt signal.
NextLifecycle ==
    \/ SocketNext({"A"}, {"c2"}, HubRooms, ChatFrames, MaxMsgs)
    \/ TeardownNext({"A"}, {"c2"})
    \/ \E p \in {"A"} : Shutdown(p)

SpecLifecycle == Init /\ [][NextLifecycle]_vars

\* One process and one socket with every kind of frame, and a bus whose
\* receive may fail.
NextFrames ==
    \/ SocketNext({"A"}, {"c2"}, HubRooms, Frames, MaxMsgs)
    \/ \E p \in {"A"} : LsReceiveError(p)
    \/ \E p \in {"A"} : LsRetry(p)

SpecFrames == Init /\ [][NextFrames]_vars

\* One process and one socket under the clock: frames, pongs and the read
\* deadline.
NextIdle ==
    \/ SocketNext({"A"}, {"c2"}, HubRooms, ChatFrames, MaxMsgs)
    \/ Tick
    \/ \E c \in {"c2"} : Pong(c)
    \/ \E c \in {"c2"} : RpDeadline(c)

SpecIdle == Init /\ [][NextIdle]_vars

\* The HTTP API: registration, login and the protected routes' middleware.
NextApi ==
    \/ \E req \in UserRequests, selOk \in BOOLEAN, insOk \in BOOLEAN :
         Cardinality(users) < MaxUsers /\ Register(req, selOk, insOk)
    \/ \E req \in LoginRequests, selOk \in BOOLEAN, updOk \in BOOLEAN :
         Login(req, selOk, updOk)
    \/ \E header \in Headers : AuthMiddleware(header)

SpecApi == Init /\ [][NextApi]_vars

\* Register requests served concurrently.
NextRegister ==
    \/ \E q \in RegSlots, req \in UserRequests, selOk \in BOOLEAN :
         RegisterSelect(q, req, selOk)
    \/ \E q \in RegSlots, insOk \in BOOLEAN : RegisterInsert(q, insOk)

SpecRegister == Init /\ [][NextRegister]_vars

\* One process: a socket that is up and sends, and a second socket request
\* followed step by step through HandleWebSocket.
NextHandshake ==
    \/ SocketNext({"A"}, {"c2"}, HubRooms, ChatFrames, MaxWsMsgs)
    \/ \E q \in Queries, upgradeOk \in BOOLEAN : WsAccept("c1", q, upgradeOk)
    \/ \E ok \in BOOLEAN : WsWelcome("c1", ok)
    \/ WpWrite("c1", TRUE)
    \/ WpClosed("c1")

SpecHandshake == Init /\ [][NextHandshake]_vars

\* ------------------------------------------------------------- properties
\* A step in which the call of broadcastToRoom on goroutine t ends: it returns
\* or a panic unwinds it.
Ends(t) == bc[t].pc # "idle" /\ bc'[t].pc = "idle"

\* A step taken by goroutine t inside broadcastToRoom.
BroadcastStep(t) == bc[t].pc # "idle" /\ bc'[t] # bc[t]

Count(m, seq) == Cardinality({i \in 1..Len(seq) : seq[i] = m})

\* C1: when a call of broadcastToRoom ends, it has enqueued the message on
\* every connection that was registered in the room, with a free slot in its
\* queue, when the call began.
C1_BroadcastReachesEveryMember ==
    [][\A t \in Threads : Ends(t) => bc[t].owed = {}]_vars

\* C2: a step of broadcastToRoom for room R leaves alone every connection whose
\* RoomID is another room: nothing is enqueued on it, its queue is not closed,
\* and it is not deleted from the map.
C2_RoomIsolation ==
    [][\A t \in Threads : BroadcastStep(t) =>
          \A c \in ConnIds :
             RoomID[c] # bc[t].room =>
                /\ Send'[c] = Send[c]
                /\ closed'[c] = closed[c]
                /\ c \in Connections[ProcOf(c)] => c \in Connections'[ProcOf(c)]]_vars

\* A broadcast has enqueued its message on a member of its room while a
\* connection of another room is registered in the same process.
C2_Witness ==
    \E t \in Threads : \E c, d \in Connections[ProcOfThread(t)] :
       /\ bc[t].pc = "iter"
       /\ RoomID[c] = bc[t].room
       /\ c \in bc[t].visited /\ bc[t].data \in {Send[c][i] : i \in 1..Len(Send[c])}
       /\ RoomID[d] # bc[t].room
       /\ Send[d] = <<>> /\ ~closed[d]

\* C3: a broadcast that finds a member's queue full enqueues nothing on it;
\* nothing is ever enqueued on a closed queue; and when the call ends, every
\* connection it found full has a closed queue and is out of the map, while
\* every other member that had a free slot when the call began has the message.
C3_BackpressureDrop ==
    [][\A t \in Threads :
          /\ (BroadcastStep(t) /\ bc'[t].pc = "close") => Send' = Send
          /\ \A c \in ConnIds : closed[c] => Len(Send'[c]) <= Len(Send[c])
          /\ (Ends(t) /\ bc[t].dropped # {}) =>
                /\ \A d \in bc[t].dropped :
                      closed'[d] /\ d \notin Connections'[ProcOf(d)]
                /\ bc[t].owed \ bc[t].dropped = {}]_vars

\* No goroutine is inside broadcastToRoom and nothing is in flight to a hub or
\* to a bus listener.
Quiescent ==
    /\ \A t \in Threads : bc[t].pc = "idle"
    /\ \A c \in ConnIds : rpPc[c] # "handle"
    /\ \A p \in Procs : hubReq[p] = NoReq /\ inbox[p] = <<>>

\* C4: a chat envelope that a socket of one process published is never enqueued
\* twice on a connection, and once the processes are quiescent it has been
\* enqueued exactly once on every connection that was registered in its room on
\* the other process when it was published and still is.
C4_ExactlyOncePerProcess ==
    \A e \in published :
       e.from # "" =>
          \A c \in ConnIds :
             LET n == Count(Field(e.payload, "message_id"), enqueued[c]) IN
             /\ n <= 1
             /\ ( /\ Quiescent
                  /\ nreplays = 0
                  /\ ProcOf(c) # e.from
                  /\ ~crashed[ProcOf(c)]
                  /\ c \in e.members
                  /\ c \in Connections[ProcOf(c)] ) => n = 1

\* C5: while the bus listener handles an envelope (a payload with a message_id)
\* that it has received before, nothing is enqueued on any connection.
C5_SecondArrivalEnqueuesNothing ==
    [][\A p \in Procs :
          ( /\ BroadcastStep(p)
            /\ bc[p].frame.again
            /\ Field(bc[p].data, "message_id") # "" ) => Send' = Send]_vars

\* C7: no read pump and no bus listener is ever inside the loop over
\* Hub.Connections; the map is left to Hub.Run.
C7_MapOnlyInRegistryLoop == \A t \in Threads : bc[t].pc = "idle"

\* C8: a read pump sends on Hub.Unregister exactly once, when it exits and not
\* before; and whatever ends a connection (the write pump's exit, the drop of a
\* full queue once the write pump has seen it) closes the socket, which ends the
\* read pump's loop.
C8_UnregisterExactlyOnce ==
    \A c \in ConnIds :
       /\ unregSent[c] = IF rpPc[c] = "done" THEN 1 ELSE 0
       /\ wpPc[c] = "done" => wsClosed[c]
       /\ (hubReq[ProcOf(c)] = [op |-> "unregister", c |-> c]) => rpPc[c] = "done"

\* A connection dropped for its full queue whose read pump has exited: its one
\* Unregister is at the hub, after the broadcast closed the queue.
C8_Witness ==
    \E c \in ConnIds :
       /\ hubReq[ProcOf(c)] = [op |-> "unregister", c |-> c]
       /\ closed[c] /\ c \notin Connections[ProcOf(c)]
       /\ wpPc[c] = "done"
       /\ unregSent[c] = 1

\* C9: when the broadcast of a chat frame ends, every registered member of the
\* room has the envelope, and the envelope carries the frame's message_id and
\* content.
C9_ChatKeepsClientMessageId ==
    [][\A c \in ConnIds :
          (Ends(c) /\ bc[c].frame.type = "message") =>
             /\ bc[c].owed = {}
             /\ Field(bc[c].data, "message_id") = bc[c].frame.message_id
             /\ Field(bc[c].data, "content") = bc[c].frame.content]_vars

\* The id ingress gave the message of a published payload.
IngressId(payload) ==
    IF "id" \in DOMAIN payload THEN payload.id ELSE Field(payload, "message_id")

\* C10: every message enqueued on a socket connection carries the id of a
\* message that entered, and every message a stream forwards carries the id
\* ingress gave the payload it forwards.
C10_MessageIdPreserved ==
    /\ \A c \in ConnIds : \A i \in 1..Len(enqueued[c]) :
          enqueued[c][i] \in {Uuid(n) : n \in 1..nmsgs}
    /\ \A s \in Streams : \A i \in 2..Len(streamOut[s]) :
          streamOut[s][i].id = IngressId(streamOut[s][i].content)

\* C11: a message that Handler.SendMessage or ChatServer.SendMessage stored and
\* published has, once the processes are quiescent, been enqueued exactly once,
\* under the id the call returned, on every connection that was registered in
\* its room when it was published and still is.
C11_SendMessageDualDelivery ==
    \A e \in published :
       e.from = "" =>
          \A c \in e.members :
             ( /\ Quiescent
               /\ nreplays = 0
               /\ ~crashed[ProcOf(c)]
               /\ c \in Connections[ProcOf(c)] )
             => Count(IngressId(e.payload), enqueued[c]) = 1

\* C12: every frame of a broadcasting kind that a read pump takes in starts a
\* broadcast, whatever the storage call returned.
C12_StorageFailureStillBroadcasts ==
    [][nmsgs' = nmsgs + 1 =>
          \E c \in ConnIds : bc[c].pc = "idle" /\ bc'[c].pc # "idle"]_vars

\* C13: when the broadcast of a chat frame returns and the Publish that follows
\* fails, every connection that was registered in the room with a free slot
\* when the broadcast began has the envelope, nothing reaches the bus, and the
\* read pump goes back to reading without a second attempt.
C13_BusFailureKeepsLocalDelivery ==
    [][\A c \in ConnIds :
          ( /\ bc[c].pc = "iter" /\ bc'[c].pc = "idle"
            /\ bc[c].frame.type = "message"
            /\ published' = published )
          => /\ bc[c].owed = {}
             /\ inbox' = inbox
             /\ rpPc'[c] = "read"]_vars

\* The next step of the call of broadcastToRoom on goroutine t, its return
\* included.
BroadcastNext(t) ==
    \/ BcNext(t)
    \/ BcSelect(t)
    \/ BcClose(t)
    \/ BcDelete(t)
    \/ t \in Procs /\ LsReturn(t)
    \/ t \in ConnIds /\ \E busOk \in BOOLEAN : RpReturn(t, busOk)

\* C14: a call of broadcastToRoom in a live process can always take its next
\* step, whatever the state of the queues and of the write pumps, and it makes
\* its one attempt only on connections of the room, each taken once.
C14_BroadcastNeverBlocks ==
    \A t \in Threads :
       (bc[t].pc # "idle" /\ ~crashed[ProcOfThread(t)]) =>
          /\ ENABLED BroadcastNext(t)
          /\ \A c \in bc[t].visited : RoomID[c] = bc[t].room
          /\ bc[t].pc # "iter" => bc[t].cur \in bc[t].visited

\* A broadcast is at its send on a connection whose queue is full and whose
\* write pump has exited, and every registered member of the room has a full
\* queue.
C14_Witness ==
    \E t \in Threads :
       /\ bc[t].pc = "select"
       /\ ~crashed[ProcOfThread(t)]
       /\ Len(Send[bc[t].cur]) = QueueCap
       /\ wpPc[bc[t].cur] = "done"
       /\ \A c \in Connections[ProcOfThread(t)] :
             RoomID[c] = bc[t].room => Len(Send[c]) = QueueCap

\* The position of the first copy of message m in a history of enqueues.
First(m, seq) == CHOOSE i \in 1..Len(seq) : seq[i] = m /\ \A j \in 1..(i - 1) : seq[j] # m

\* The place of an id in the order uuid.New() handed the ids out.
Seqno(id) == CHOOSE n \in 1..Len(UuidPool) : UuidPool[n] = id

\* C15: a read pump takes its next frame only when the handling of the previous
\* one has returned, and a connection that was enqueued two chat envelopes of
\* one sender got the earlier frame's envelope first.
C15_PerConnectionOrder ==
    /\ \A c \in ConnIds : rpPc[c] # "handle" => bc[c].pc = "idle"
    /\ \A r \in ConnIds : \A a, b \in stored :
          ( /\ a.user_id = b.user_id /\ a.user_id \in ConnIds
            /\ Seqno(a.id) < Seqno(b.id)
            /\ Count(a.id, enqueued[r]) > 0 /\ Count(b.id, enqueued[r]) > 0 )
          => First(a.id, enqueued[r]) < First(b.id, enqueued[r])

\* C16: a read pump never handles a frame while the Register of its connection
\* is still waiting in Hub.Run.
C16_RegisteredBeforeFirstFrame ==
    \A c \in ConnIds :
       rpPc[c] = "handle" => hubReq[ProcOf(c)] # [op |-> "register", c |-> c]

\* C17: a write pump that has exited, whose queue was closed and none of whose
\* writes failed on the open socket, has written every message enqueued on the
\* connection, in the order of the queue, and then one close frame.
C17_WritePumpDrainsThenCloses ==
    \A c \in ConnIds :
       ( /\ wpPc[c] = "done"
         /\ closed[c]
         /\ \A i \in 1..Len(written[c]) : written[c][i] # "error" )
       => written[c] = enqueued[c] \o <<"close">>

\* C18: once a bus receive of StreamMessages has failed, the call does not go
\* back to receiving on that subscription: its next step is its return, which
\* releases the subscription.
C18_StreamReturnsAfterReceiveFailure ==
    [][\A s \in Streams : streamPc[s] = "retry" => streamPc'[s] \in {"retry", "done"}]_vars

\* C19: every envelope published on "room:" + room_id, by a socket, the HTTP
\* handler or the RPC handler, is received by the subscriber loop of every
\* running process: it is waiting in the loop's subscription or has arrived.
C19_ListenerReceivesEveryRoom ==
    \A e \in published : \A p \in Procs :
       ~crashed[p] =>
          \/ e.payload \in arrived[p]
          \/ \E i \in 1..Len(inbox[p]) : inbox[p][i] = e.payload

\* C20: after the shutdown signal the registry accepts no Register request and
\* adds no connection to the map.
C20_NoRegisterAfterShutdown ==
    [][\A p \in Procs :
          shutdown[p] =>
             /\ hubReq'[p].op = "register" => hubReq'[p] = hubReq[p]
             /\ Connections'[p] \subseteq Connections[p]]_vars

\* A token made with the server's key under the method generateJWT uses, and
\* still in date.
Genuine(tok) ==
    tok.wellformed /\ tok.alg = "HS256" /\ tok.key = Secret /\ tok.exp # "past"

\* C22: a request without Authorization header, or with a token that does not
\* verify, gets 401, the chain is aborted and the protected handler does not
\* run; user_id and username are in the context only as the claims of a token
\* that verifies.
C22_AuthRejectsUnverified ==
    resp.op = "auth" =>
       LET h == resp.header IN
       /\ (~h.present \/ ~Genuine(h.token)) =>
             /\ resp.status = 401
             /\ resp.aborted
             /\ ~resp.ran
             /\ ~resp.ctx.set
       /\ resp.ran => ~resp.aborted
       /\ resp.ctx.set =>
             /\ h.present /\ Genuine(h.token)
             /\ resp.ctx.user_id = Claim(h.token.claims, "user_id").v
             /\ resp.ctx.username = Claim(h.token.claims, "username").v

\* A token with every claim, signed with another key, has been refused.
C22_Witness ==
    /\ resp.op = "auth"
    /\ resp.header.present
    /\ resp.header.token.wellformed
    /\ resp.header.token.alg = "HS256"
    /\ resp.header.token.key # Secret
    /\ resp.header.token.exp = "future"
    /\ DOMAIN resp.header.token.claims = {"user_id", "username"}
    /\ resp.status = 401

\* A registration payload with a username, an email of the form local@domain
\* and a password of six characters or more.
ValidRegistration(req) ==
    /\ req.username # ""
    /\ req.email.local # "" /\ req.email.domain # ""
    /\ Len(req.password) >= MinPassword

\* C23: Register answers 400 and makes no storage call for a payload that fails
\* validation; for a valid payload whose email and username are not taken it
\* answers 201 "User created successfully" having inserted exactly one user,
\* that of the payload (500, and no user, when storage refuses the row); and it
\* inserts nothing when it answers anything but 201.
C23_RegisterValidation ==
    [][(resp'.op = "register" /\ <<resp, users>>' # <<resp, users>>) =>
          LET r == resp'
              taken == \E u \in users : u.email = r.req.email
                                          \/ u.username = r.req.username
              new == users' \ users IN
          /\ ~ValidRegistration(r.req) =>
                r.status = 400 /\ r.calls = 0 /\ users' = users
          /\ (ValidRegistration(r.req) /\ ~taken) =>
                \/ /\ r.status = 201
                   /\ r.message = "User created successfully"
                   /\ users \subseteq users'
                   /\ Cardinality(new) = 1
                   /\ \A u \in new : /\ u.username = r.req.username
                                     /\ u.email = r.req.email
                                     /\ CompareHashAndPassword(u.password,
                                                               r.req.password)
                \/ r.status = 500 /\ users' = users
          /\ r.status # 201 => users' = users]_vars

\* A valid registration has been answered 201 and its user is in the table.
C23_Witness ==
    /\ resp.op = "register"
    /\ resp.status = 201
    /\ \E u \in users : u.username = resp.req.username /\ u.email = resp.req.email
    /\ Cardinality(users) = 1

\* A login payload with an email of the form local@domain and a password.
ValidLogin(req) ==
    /\ req.email.local # "" /\ req.email.domain # ""
    /\ req.password # ""

\* C24: Login answers 400 and makes no storage call for a payload that fails
\* validation; it answers 401 when no user has the email or the password does
\* not match the stored hash; and it answers 200 "Login successful" with a
\* token of the user only when the stored hash of a user with that email
\* matches the password.
C24_LoginChecksPassword ==
    [][(resp'.op = "login" /\ <<resp, users>>' # <<resp, users>>) =>
          LET r == resp'
              rows == {u \in users : u.email = r.req.email}
              matching == {u \in rows :
                             CompareHashAndPassword(u.password, r.req.password)} IN
          /\ ~ValidLogin(r.req) =>
                r.status = 400 /\ r.calls = 0 /\ users' = users
          /\ (ValidLogin(r.req) /\ matching = {}) =>
                r.status = 401 /\ users' = users
          /\ r.status = 200 =>
                /\ r.message = "Login successful"
                /\ \E u \in matching :
                      r.token = GenerateJWT(u.id, u.username)
          /\ r.status \in {200, 400, 401}
          /\ r.status # 200 => r.token = Malformed]_vars

\* A login with the password of a registered user has been answered 200 and
\* the user's row is marked online.
C24_Witness ==
    /\ resp.op = "login"
    /\ resp.status = 200
    /\ resp.token.wellformed
    /\ \E u \in users : u.email = resp.req.email /\ u.status = "online"

\* A step in which a collaborator failure is handled: a read pump takes a frame
\* that does not decode or is of no known kind; a handler's storage call fails
\* and it returns without broadcasting; the Publish after the broadcast of a
\* chat frame fails; the bus listener's ReceiveMessage fails.
FaultStep ==
    \/ \E c \in ConnIds, k \in {"malformed", "other"} :
         frameLog' = Append(frameLog, [c |-> c, type |-> k])
    \/ \E c \in ConnIds, k \in {"message", "join"} :
         /\ frameLog' = Append(frameLog, [c |-> c, type |-> k])
         /\ bc' = bc
    \/ \E c \in ConnIds :
         /\ bc[c].pc = "iter" /\ bc'[c].pc = "idle"
         /\ bc[c].frame.type = "message"
         /\ published' = published
    \/ \E p \in Procs : lsPc[p] = "recv" /\ lsPc'[p] # "recv"

\* C21: the step that handles a malformed frame, a storage error, a publish
\* error or a bus receive error leaves every process alive, its bus listener in
\* its loop, and what the hub loop has received still to be served.
C21_FaultsKeepLoopsRunning ==
    [][FaultStep =>
          /\ crashed' = crashed
          /\ \A p \in Procs : lsPc'[p] \in {"recv", "logged"}
          /\ hubReq' = hubReq
          /\ Connections' = Connections]_vars

\* After a frame that did not decode and a bus receive error that has just
\* been logged, the process is alive and a registered connection has been
\* delivered the chat frame that followed.
C21_Witness ==
    /\ Len(frameLog) = 2
    /\ frameLog[1].type = "malformed"
    /\ frameLog[2].type = "message"
    /\ \E c \in Connections["A"] : enqueued[c] # <<>>
    /\ ~crashed["A"]
    /\ lsPc["A"] = "logged"

\* C26: when the handling of a leave frame of a registered connection returns,
\* the connection is out of the map and its queue is closed; and nothing is
\* enqueued on a connection after a leave frame of its own has been handled.
C26_LeaveUnregisters ==
    [][\A c \in ConnIds :
          /\ (bc[c].pc = "iter" /\ bc'[c].pc = "idle" /\ bc[c].frame.type = "leave"
              /\ rpPc'[c] = "read" /\ c \in Connections[ProcOf(c)]) =>
                /\ c \notin Connections'[ProcOf(c)]
                /\ closed'[c]
          /\ ( /\ \E i \in 1..Len(frameLog) : frameLog[i] = [c |-> c, type |-> "leave"]
               /\ bc[c].frame.type # "leave" ) =>
                enqueued'[c] = enqueued[c]]_vars

\* C27: the step in which a read pump takes a frame that does not decode, or
\* whose type is none of message, join, leave and typing, changes nothing but
\* the record of the frame: the map, the queues, storage and the bus are as
\* they were, no broadcast starts, and the read pump is back at its read.
C27_BadFrameChangesNothing ==
    [][\A c \in ConnIds, k \in {"malformed", "other"} :
          frameLog' = Append(frameLog, [c |-> c, type |-> k]) =>
             /\ Connections' = Connections
             /\ Send' = Send /\ closed' = closed /\ enqueued' = enqueued
             /\ stored' = stored /\ dbCalls' = dbCalls
             /\ inbox' = inbox /\ published' = published
             /\ bc' = bc
             /\ rpPc'[c] = "read" /\ ~wsClosed'[c]
             /\ crashed' = crashed]_vars

\* A registered connection whose first frame was of an unknown type has had its
\* second frame, a chat message, stored and delivered.
C27_Witness ==
    /\ Len(frameLog) = 2
    /\ frameLog[1] = [c |-> "c2", type |-> "other"]
    /\ frameLog[2] = [c |-> "c2", type |-> "message"]
    /\ "c2" \in Connections["A"]
    /\ enqueued["c2"] # <<>>
    /\ stored # {}

\* C29: the RoomID of a connection never changes once it is created; every
\* broadcast a read pump starts, whatever room its frame names, is for the
\* RoomID of its connection and carries it; and a connection is enqueued
\* messages only by broadcasts for its RoomID.
C29_RoomBoundForLife ==
    [][\A c \in ConnIds :
          /\ RoomID[c] # "" => RoomID'[c] = RoomID[c]
          /\ bc'[c].pc # "idle" =>
                /\ bc'[c].room = RoomID'[c]
                /\ Field(bc'[c].data, "room_id") = RoomID'[c]
          /\ \A t \in Threads :
                (BroadcastStep(t) /\ enqueued'[c] # enqueued[c]) =>
                   bc[t].room = RoomID[c]]_vars

\* The read pump of a registered connection is handling a join frame that names
\* another room than the connection's, and has enqueued the join envelope on
\* the connection itself.
C29_Witness ==
    \E c \in ConnIds :
       /\ c \in Connections[ProcOf(c)]
       /\ bc[c].pc = "iter"
       /\ bc[c].frame.type = "join"
       /\ bc[c].frame.room_id # RoomID[c]
       /\ c \in bc[c].visited
       /\ bc[c].data \in {Send[c][i] : i \in 1..Len(Send[c])}

\* C30: the step in which a read pump takes a typing frame starts one
\* broadcast, of a typing envelope with the frame's content, to the
\* connection's room, and makes no storage call; and no step of that handling,
\* its return included, stores a message or publishes on the bus.
C30_TypingBroadcastOnly ==
    [][\A c \in ConnIds :
          /\ frameLog' = Append(frameLog, [c |-> c, type |-> "typing"]) =>
                /\ bc[c].pc = "idle" /\ bc'[c].pc = "iter"
                /\ bc'[c].room = RoomID[c]
                /\ Field(bc'[c].data, "type") = "typing"
                /\ Field(bc'[c].data, "content") = bc'[c].frame.content
                /\ stored' = stored /\ dbCalls' = dbCalls
                /\ inbox' = inbox /\ published' = published
          /\ (BroadcastStep(c) /\ bc[c].frame.type = "typing") =>
                /\ stored' = stored /\ dbCalls' = dbCalls
                /\ inbox' = inbox /\ published' = published]_vars

\* The handling of a typing frame has enqueued its envelope on the sender's own
\* registered connection and nothing is stored.
C30_Witness ==
    \E c \in ConnIds :
       /\ c \in Connections[ProcOf(c)]
       /\ bc[c].pc = "iter"
       /\ bc[c].frame.type = "typing"
       /\ c \in bc[c].visited
       /\ Send[c] = <<bc[c].data>>
       /\ stored = {}
       /\ dbCalls = 0

\* C28: every frame a read pump takes moves the read deadline of its socket to
\* ReadWait from now, and a read pump ends on the deadline only when it has
\* taken no frame for more than ReadWait.
C28_FramesRefreshDeadline ==
    [][\A c \in ConnIds :
          /\ (\E k \in FrameTypes : frameLog' = Append(frameLog, [c |-> c, type |-> k]))
                => readDeadline'[c] = now + ReadWait
          /\ (rpPc[c] = "read" /\ rpPc'[c] = "exit" /\ now > readDeadline[c])
                => now > lastFrame[c] + ReadWait]_vars

\* ---- teardown under fair scheduling ----

\* Hub.Run has removed c from the map and closed its queue (part_002:438-441),
\* and both pumps of c have returned.
TornDown(c) ==
    /\ c \notin Connections[ProcOf(c)]
    /\ closed[c]
    /\ rpPc[c] = "done"
    /\ wpPc[c] = "done"

\* readPump has left its loop (websocket.go:130-136) or writePump has returned
\* (websocket.go:159-181).
TeardownStarted(c) ==
    rpPc[c] \in {"exit", "panic", "done"} \/ wpPc[c] = "done"

NextTeardown ==
    \/ SocketNext({"A"}, {"c2"}, HubRooms, ChatFrames, MaxMsgs)
    \/ TeardownNext({"A"}, {"c2"})

\* The Go scheduler runs every runnable goroutine: Hub.Run, the deferred
\* unregister of readPump, writePump on a closed queue or a queued message, a
\* read or write on a socket that is already closed, and a broadcast in
\* progress. Frames, pongs and failures of an open socket are the peer's.
TeardownFairness ==
    /\ WF_vars(HubRegister("A"))
    /\ WF_vars(HubUnregister("A"))
    /\ WF_vars(RpUnregister("c2"))
    /\ WF_vars(WpClosed("c2"))
    /\ WF_vars(WpWrite("c2", TRUE))
    /\ WF_vars(wsClosed["c2"] /\ RpReadError("c2"))
    /\ WF_vars(wsClosed["c2"] /\ WpWrite("c2", FALSE))
    /\ WF_vars(\E busOk \in BOOLEAN : RpReturn("c2", busOk))
    /\ \A t \in {"A", "c2"} :
          WF_vars(BcNext(t) \/ BcSelect(t) \/ BcClose(t) \/ BcDelete(t))

SpecTeardown == Init /\ [][NextTeardown]_vars /\ TeardownFairness

\* C25: once the read loop of a connection has exited, or its write loop has
\* returned, the connection is eventually out of the registry map, its queue
\* is closed and both of its loops have ended.
C25_TeardownCompletes ==
    \A c \in {"c2"} : TeardownStarted(c) ~> TornDown(c)

\* ---- the streaming call and the registry ----

\* A step of a StreamMessages call: it opens, forwards, logs an error, retries
\* or returns.
StreamStep ==
    streamPc' # streamPc \/ streamOut' # streamOut \/ streamRoom' # streamRoom

\* Every message the stream forwarded carries a payload that was published on
\* the channel of the stream's room.
ForwardedFromOwnRoom ==
    \A s \in Streams : \A i \in 1..Len(streamOut[s]) :
        streamOut[s][i].type = "text" =>
            \E e \in published :
                /\ e.payload = streamOut[s][i].content
                /\ Channel(e.payload.room_id) = Channel(streamRoom[s])

\* C31: a step of a StreamMessages call leaves the connection map, every
\* outbound queue and every queue's closed flag unchanged, and a stream for
\* room R forwards only payloads published on R's channel.
C31_StreamIndependentOfRegistry ==
    [][/\ StreamStep =>
            /\ Connections' = Connections
            /\ Send' = Send
            /\ closed' = closed
       /\ ForwardedFromOwnRoom']_vars

\* A stream was opened while a socket was registered, forwarded a published
\* payload and returned.
C31_Witness ==
    \E s \in Streams :
        /\ streamPc[s] = "done"
        /\ \E i \in 1..Len(streamOut[s]) : streamOut[s][i].type = "text"
        /\ \E c \in ConnIds : c \in Connections[ProcOf(c)]

\* ---- closes and sends on a connection's queue ----

\* A step that runs close(conn.Send) on a queue that is already closed: the
\* default branch of broadcastToRoom's select, or Hub.Run's Unregister case.
ClosesClosedQueue ==
    \/ \E t \in Threads :
         /\ bc[t].pc = "close" /\ closed[bc[t].cur]
         /\ bc'[t] # bc[t]
    \/ \E p \in Procs :
         /\ hubReq[p].op = "unregister"
         /\ hubReq[p].c \in Connections[p] /\ closed[hubReq[p].c]
         /\ hubReq'[p] # hubReq[p]

\* C32: no step of a broadcast or of the registry loop closes a queue that is
\* already closed.
C32_QueueClosedAtMostOnce == [][~ClosesClosedQueue]_vars

\* A step that runs the select of broadcastToRoom, with its send on conn.Send,
\* on a queue that is already closed.
SendsOnClosedQueue ==
    \E t \in Threads :
        /\ bc[t].pc = "select" /\ closed[bc[t].cur]
        /\ bc'[t] # bc[t]

\* C33: no step of a broadcast attempts an enqueue on a queue that has already
\* been closed, by Unregister or by another broadcast's drop.
C33_NoSendOnClosedQueue == [][~SendsOnClosedQueue]_vars

\* ---- the map and the queues between steps ----

\* Hub.Run is in its select with nothing received, and no goroutine is inside
\* broadcastToRoom.
NoStepInProgress ==
    /\ \A t \in Threads : bc[t].pc = "idle"
    /\ \A p \in Procs : hubReq[p] = NoReq

\* C34: whenever no Register, Unregister or Broadcast step is in progress, a
\* connection that has been registered is in the map if and only if its queue
\* is open.
C34_MappedIffQueueOpen ==
    NoStepInProgress =>
        \A c \in registered : (c \in Connections[ProcOf(c)]) <=> ~closed[c]

\* Between steps, one registered connection has been removed by a broadcast
\* (its read pump has sent no Unregister) and another after its read pump sent
\* an Unregister.
C34_Witness ==
    /\ NoStepInProgress
    /\ \E c \in registered :
         c \notin Connections[ProcOf(c)] /\ closed[c] /\ unregSent[c] = 0
    /\ \E c \in registered :
         c \notin Connections[ProcOf(c)] /\ closed[c] /\ unregSent[c] > 0

\* Hub.Run handles an Unregister for a connection that is not in its map.
UnregistersAbsent(p) ==
    /\ hubReq[p].op = "unregister"
    /\ hubReq[p].c \notin Connections[p]
    /\ hubReq'[p] # hubReq[p]

\* C35: an Unregister for a connection that is no longer in the map leaves the
\* map, every queue and every queue's closed flag unchanged, and the process
\* does not die of a second close.
C35_UnregisterIdempotent ==
    [][\A p \in Procs :
          UnregistersAbsent(p) =>
              /\ Connections' = Connections
              /\ Send' = Send
              /\ closed' = closed
              /\ crashed' = crashed]_vars

\* A broadcast still in its loop found the queue of a connection full, closed
\* it and deleted the connection; the read pump of the connection has since
\* sent its Unregister and Hub.Run has handled it.
C35_Witness ==
    \E c \in registered, t \in Threads :
        /\ c \in bc[t].dropped /\ bc[t].pc = "iter"
        /\ c \notin Connections[ProcOf(c)] /\ closed[c]
        /\ unregSent[c] > 0
        /\ hubReq[ProcOf(c)] = NoReq
        /\ ~crashed[ProcOf(c)]

\* ---- concurrent registrations ----

\* Two Register requests name the same email or the same username.
Share(a, b) == a.email = b.email \/ a.username = b.username

\* The requests that were answered 201.
Created == {q \in RegSlots : regs[q].pc = "done" /\ regs[q].status = 201}

\* C36: no two rows of the users table share an email or a username; every
\* row is that of a request answered 201 and every such request has one row;
\* and of two answered requests that pass validation and share an email or a
\* username, at most one was answered 201 and the others 409 or 500.
C36_OneUserPerEmailAndName ==
    /\ \A u \in users, v \in users : Share(u, v) => u = v
    /\ Cardinality(users) = Cardinality(Created)
    /\ \A u \in users : \E q \in Created :
          regs[q].req.email = u.email /\ regs[q].req.username = u.username
    /\ \A q \in RegSlots, r \in RegSlots :
          ( /\ q # r
            /\ regs[q].pc = "done" /\ regs[r].pc = "done"
            /\ ValidRegistration(regs[q].req) /\ ValidRegistration(regs[r].req)
            /\ Share(regs[q].req, regs[r].req) )
          => /\ ~(regs[q].status = 201 /\ regs[r].status = 201)
             /\ regs[q].status \in {201, 409, 500}

\* Two requests with the same email both passed the SELECT before either
\* inserted; one was answered 201 and the other 500.
C36_Witness ==
    \E q \in RegSlots, r \in RegSlots :
        /\ q # r
        /\ regs[q].pc = "done" /\ regs[r].pc = "done"
        /\ regs[q].req.email = regs[r].req.email
        /\ regs[q].req.username # regs[r].req.username
        /\ regs[q].status = 201 /\ regs[r].status = 500
        /\ Cardinality(users) = 1

\* ---- what SendMessage publishes ----

\* A step of SendMessage: a message enters and no read pump took a frame.
SendStep == nmsgs' = nmsgs + 1 /\ frameLog' = frameLog

\* C37: a SendMessage whose INSERT fails answers 500, stores no row and
\* publishes nothing; one that answers 201 has inserted exactly one row, whose
\* id is the message_id of the answer, and every envelope it published carries
\* that id.
C37_SendPublishesOnlyPersisted ==
    [][SendStep =>
          LET rows == stored' \ stored
              sent == published' \ published
          IN
          /\ resp'.op = "send" /\ resp'.status \in {201, 500}
          /\ resp'.status = 500 =>
                rows = {} /\ sent = {} /\ inbox' = inbox
          /\ resp'.status = 201 =>
                /\ Cardinality(rows) = 1
                /\ \A r \in rows : r.id = resp'.message_id
                /\ \A e \in sent : e.payload.id = resp'.message_id
                /\ \A s \in Subscribers :
                      \A i \in (Len(inbox[s]) + 1)..Len(inbox'[s]) :
                          inbox'[s][i].id = resp'.message_id]_vars

\* SendMessage answered 201 and the bus listener of a process has received
\* the envelope with the id of the answer.
C37_Witness ==
    /\ resp.op = "send" /\ resp.status = 201
    /\ \E r \in stored : r.id = resp.message_id
    /\ \E e \in published : e.payload.id = resp.message_id
    /\ \E p \in Procs : \E m \in arrived[p] : Field(m, "id") = resp.message_id

\* ---- the handshake ----

\* A socket request without user_id, username or room_id.
Lacks(q) == q.user_id = "" \/ q.username = "" \/ q.room_id = ""

\* C38: a socket request that lacks user_id, username or room_id, or whose
\* upgrade fails, creates no connection, sends nothing to Hub.Register and
\* starts no pump; the connection map is unchanged.
C38_RejectedHandshakeCreatesNothing ==
    [][( /\ resp' # resp
         /\ resp'.op = "ws"
         /\ Lacks(resp'.query) \/ resp'.status # 101 )
       => /\ Connections' = Connections
          /\ hubReq' = hubReq
          /\ rpPc' = rpPc /\ wpPc' = wpPc
          /\ RoomID' = RoomID
          /\ resp'.status # 101]_vars

\* A request without room_id was answered 400 while another socket was
\* registered, and the connection it asked for does not exist.
C38_Witness ==
    /\ resp.op = "ws" /\ resp.status = 400
    /\ resp.query.user_id # "" /\ resp.query.username # ""
    /\ resp.query.room_id = ""
    /\ rpPc["c1"] = "none" /\ wpPc["c1"] = "none"
    /\ Connections["A"] = {"c2"}

\* C39: the welcome frame is written to the socket before any frame of
\* writePump, also when the connection was registered and had envelopes in its
\* queue by then; and writePump is not running while HandleWebSocket has the
\* welcome to write.
C39_WelcomeIsFirstFrame ==
    \A c \in ConnIds :
        /\ welcome[c].state = "none" => written[c] = <<>>
        /\ welcome[c].state # "none" => welcome[c].at = 0
        /\ rpPc[c] = "new" => wpPc[c] = "none"

\* The welcome was written when the connection already had an envelope in its
\* queue, and writePump has written the envelope since.
C39_Witness ==
    \E c \in ConnIds :
        /\ welcome[c].state = "ok" /\ welcome[c].queued > 0
        /\ written[c] # <<>>
====
